---- MODULE Spec2Model ----
(***************************************************************************)
(* Model of app/api/dictation.py: the three request handlers get_config,   *)
(* update_config and create_task over the tables they read and write       *)
(* (children, dictation configs, curriculum items, tasks, task items).     *)
(* Each handler runs to completion on one request (Flask handles a request *)
(* synchronously inside one scoped database session), so one action is one *)
(* whole request: parameter check, ownership check, config get-or-create,  *)
(* word selection, persistence, and the response code.                     *)
(***************************************************************************)
EXTENDS Integers, Sequences, FiniteSets

VARIABLES curriculum, configs, tasks, items, last

vars == <<curriculum, configs, tasks, items, last>>

----------------------------------------------------------------------------
(* Bounds of the model *)

MaxItems == 2        \* rows of the curriculum table
MaxWords == 2        \* length of a word list in a request
MaxTasks == 1        \* rows of the task table

(* The default of DictationConfig.words_per_dictation, as the docstring of *)
(* get_config shows it.                                                    *)
DefaultWordsPerDictation == 10

----------------------------------------------------------------------------
(* Values *)

Words == {"a", "b"}
Units == {1, 2}
Users == {1, 2}
\* child 1 exists; 2 is an id no child has; so is 0, which Python treats as false
ChildIds == {0, 1, 2}
\* values a request asks update_config to store in words_per_dictation
WpdValues == {-1, 0, 1}

SeqsUpTo(S, n) == UNION {[1..k -> S] : k \in 0..n}

(* The children table; no handler of this module writes it. *)
children ==
    << [id |-> 1, user_id |-> 1, grade |-> 3, semester |-> 1, textbook_version |-> "A"] >>

NoChild == [id |-> 0, user_id |-> 0, grade |-> 0, semester |-> 0, textbook_version |-> ""]

(* Rows a curriculum table (YuwenItem) is made of: unit 1 of grade 3, with *)
(* both words in semester 1 and one of them in semester 2; unit 2 has no   *)
(* rows                                                                    *)
YuwenItems ==
    { [grade |-> 3, semester |-> 1, textbook_version |-> "A", unit |-> 1, word |-> w] :
        w \in Words }
    \cup
    { [grade |-> 3, semester |-> 2, textbook_version |-> "A", unit |-> 1, word |-> "a"] }

(* Response codes *)
SUCCESS == "success"
MISSING_REQUIRED_PARAM == "MISSING_REQUIRED_PARAM"
CHILD_NOT_FOUND == "CHILD_NOT_FOUND"
DATABASE_ERROR == "DATABASE_ERROR"
INTERNAL_ERROR == "INTERNAL_ERROR"

----------------------------------------------------------------------------
(* Queries *)

\* Child.query.filter_by(id=child_id, user_id=g.user.id).first()
FindChild(child_id, user_id) ==
    LET hit == {i \in 1..Len(children) :
                   children[i].id = child_id /\ children[i].user_id = user_id}
    IN  IF hit = {} THEN NoChild
        ELSE children[CHOOSE i \in hit : \A j \in hit : i <= j]

\* child.dictation_config: the rows of the config table of this child
ConfigRows(cfgs, child_id) == {i \in 1..Len(cfgs) : cfgs[i].child_id = child_id}

HasConfig(cfgs, child_id) == ConfigRows(cfgs, child_id) # {}

ConfigOf(cfgs, child_id) ==
    cfgs[CHOOSE i \in ConfigRows(cfgs, child_id) :
            \A j \in ConfigRows(cfgs, child_id) : i <= j]

\* DictationConfig(child=child)
NewConfig(child) ==
    [child_id |-> child.id, words_per_dictation |-> DefaultWordsPerDictation]

\* a get-or-create that does not look for the row the child has
GetOrCreateConfigAlways(cfgs, child) == Append(cfgs, NewConfig(child))

\* config = child.dictation_config; if not config: config = DictationConfig(child=child)
GetOrCreateConfig(cfgs, child) ==
    IF HasConfig(cfgs, child.id) THEN cfgs ELSE Append(cfgs, NewConfig(child))

\* setattr(config, 'words_per_dictation', data['words_per_dictation'])
SetWordsPerDictation(cfgs, child_id, wpd) ==
    LET row == CHOOSE i \in ConfigRows(cfgs, child_id) :
                   \A j \in ConfigRows(cfgs, child_id) : i <= j
    IN  [cfgs EXCEPT ![row].words_per_dictation = wpd]

\* db.session.commit() that succeeds: the pending rows join the table
Commit(table, pending) == table \o pending

\* a failed commit whose pending rows stay
RollbackKeepsPending(table, pending) == table \o pending

\* db.session.rollback(): the pending rows are discarded
Rollback(table, pending) == table

----------------------------------------------------------------------------
(* Word selection of create_task *)

\* the branches tried in the order unit, explicit, smart
SelectionModeUnitFirst(data) ==
    IF data.has_unit THEN "unit"
    ELSE IF data.has_words THEN "explicit"
    ELSE "smart"

\* which branch of "if 'words' in data / elif 'unit' in data / else" runs
SelectionMode(data) ==
    IF data.has_words THEN "explicit"
    ELSE IF data.has_unit THEN "unit"
    ELSE "smart"

\* the explicit list cut to its first word
ExplicitWordsTruncated(data) ==
    IF Len(data.words) > 1 THEN SubSeq(data.words, 1, 1) ELSE data.words

\* words = data['words']
ExplicitWords(data) == data.words

\* the curriculum query without its unit filter
FindCurriculumItemsAnyUnit(cur, child, unit) ==
    LET match(item) == /\ item.grade = child.grade
                       /\ item.semester = child.semester
                       /\ item.textbook_version = child.textbook_version
    IN  SelectSeq(cur, match)

\* YuwenItem.query.filter_by(grade, semester, textbook_version, unit).all()
FindCurriculumItems(cur, child, unit) ==
    LET match(item) == /\ item.grade = child.grade
                       /\ item.semester = child.semester
                       /\ item.textbook_version = child.textbook_version
                       /\ item.unit = unit
    IN  SelectSeq(cur, match)

\* words = [item.word for item in items]
MatchedWords(cur, child, unit) ==
    LET found == FindCurriculumItems(cur, child, unit)
    IN  [i \in 1..Len(found) |-> found[i].word]

\* random.sample raises ValueError when k is negative or larger than the population
SampleRaises(population, k) == k < 0 \/ k > Len(population)

\* random.sample(population, k): k elements at pairwise distinct positions, in any order
RandomSample(population, k) ==
    LET picks == {f \in [1..k -> 1..Len(population)] :
                     \A i, j \in 1..k : i # j => f[i] # f[j]}
    IN  {[i \in 1..k |-> population[f[i]]] : f \in picks}

\* if len(words) > config.words_per_dictation: words = random.sample(words, ...)
\* an outcome is the value of words and whether the statement raised
UnitWords(words, words_per_dictation) ==
    IF Len(words) > words_per_dictation
    THEN IF SampleRaises(words, words_per_dictation)
         THEN {[raised |-> TRUE, words |-> words]}
         ELSE {[raised |-> FALSE, words |-> w] : w \in RandomSample(words, words_per_dictation)}
    ELSE {[raised |-> FALSE, words |-> words]}

\* a smart branch that picks the first curriculum word
SmartWordsFirst == << "a" >>

\* the "smart" branch: pass, words stays []
SmartWords == << >>

\* lines 210-230: the outcomes of the selection step
SelectWords(data, child, config, cur) ==
    IF SelectionMode(data) = "explicit"
    THEN {[raised |-> FALSE, words |-> ExplicitWords(data)]}
    ELSE IF SelectionMode(data) = "unit"
    THEN UnitWords(MatchedWords(cur, child, data.unit), config.words_per_dictation)
    ELSE {[raised |-> FALSE, words |-> SmartWords]}

\* the item loop stopping one word early
TaskItemsShort(task_id, words) ==
    [i \in 1..(Len(words) - 1) |-> [task |-> task_id, word |-> words[i]]]

\* for word in words: DictationTaskItem(task=task, word=word)
TaskItems(task_id, words) ==
    [i \in 1..Len(words) |-> [task |-> task_id, word |-> words[i]]]

\* DictationTask(child=child, user_id=g.user.id)
NewTask(child, user_id) == [child_id |-> child.id, user_id |-> user_id]

----------------------------------------------------------------------------
(* Requests *)

\* query string of GET /api/dictation/config, JSON body of the other two
NoData == [has_child_id |-> FALSE, child_id |-> 0,
           has_wpd |-> FALSE, words_per_dictation |-> 0,
           has_words |-> FALSE, words |-> << >>,
           has_unit |-> FALSE, unit |-> 0]

WithChild == {NoData} \cup {[NoData EXCEPT !.has_child_id = TRUE, !.child_id = c] : c \in ChildIds}

ConfigRequests ==
    WithChild \cup
    {[d EXCEPT !.has_wpd = TRUE, !.words_per_dictation = n] : d \in WithChild, n \in WpdValues}

WithWords ==
    WithChild \cup
    {[d EXCEPT !.has_words = TRUE, !.words = w] : d \in WithChild, w \in SeqsUpTo(Words, MaxWords)}

TaskRequests ==
    WithWords \cup {[d EXCEPT !.has_unit = TRUE, !.unit = u] : d \in WithWords, u \in Units}

\* what a handler leaves behind: the response code, where it returned, the
\* branch and the value of the local "words", and the tables
Result(code, stage, mode, words, cfgs, tsks, itms) ==
    [code |-> code, stage |-> stage, mode |-> mode, words |-> words,
     configs |-> cfgs, tasks |-> tsks, items |-> itms]

NoChange(code, stage) == Result(code, stage, "none", << >>, configs, tasks, items)

----------------------------------------------------------------------------
(* Handlers *)

\* lines 37-78
get_config(user_id, args, commit_ok) ==
    LET child == FindChild(args.child_id, user_id)
    IN  IF ~args.has_child_id \/ args.child_id = 0      \* if not child_id
        THEN NoChange(MISSING_REQUIRED_PARAM, "param")
        ELSE IF child = NoChild
        THEN NoChange(CHILD_NOT_FOUND, "owner")
        ELSE IF HasConfig(configs, child.id)
        THEN NoChange(SUCCESS, "done")
        ELSE IF commit_ok
        THEN Result(SUCCESS, "done", "none", << >>,
                    GetOrCreateConfig(configs, child), tasks, items)
        ELSE NoChange(INTERNAL_ERROR, "config")         \* commit raised outside the inner try

\* lines 96-158
update_config(user_id, data, commit_ok) ==
    LET child == FindChild(data.child_id, user_id)
        config == GetOrCreateConfig(configs, child)
        updated == IF data.has_wpd
                   THEN SetWordsPerDictation(config, child.id, data.words_per_dictation)
                   ELSE config
    IN  IF ~data.has_child_id                           \* 'child_id' not in data
        THEN NoChange(MISSING_REQUIRED_PARAM, "param")
        ELSE IF child = NoChild
        THEN NoChange(CHILD_NOT_FOUND, "owner")
        ELSE IF commit_ok
        THEN Result(SUCCESS, "done", "none", << >>, updated, tasks, items)
        ELSE NoChange(DATABASE_ERROR, "commit")

\* lines 173-264; the set of outcomes, one per draw of random.sample
create_task(user_id, data, config_commit_ok, task_commit_ok) ==
    LET child == FindChild(data.child_id, user_id)
        cfgs == GetOrCreateConfig(configs, child)
        config == ConfigOf(cfgs, child.id)
        task == << NewTask(child, user_id) >>
        task_id == Len(tasks) + 1
        mode == SelectionMode(data)
    IN  IF ~data.has_child_id                           \* 'child_id' not in data
        THEN {NoChange(MISSING_REQUIRED_PARAM, "param")}
        ELSE IF child = NoChild
        THEN {NoChange(CHILD_NOT_FOUND, "owner")}
        ELSE IF ~HasConfig(configs, child.id) /\ ~config_commit_ok
        THEN {NoChange(INTERNAL_ERROR, "config")}       \* commit raised outside the inner try
        ELSE {IF sel.raised
              THEN Result(INTERNAL_ERROR, "select", mode, sel.words, cfgs, tasks, items)
              ELSE IF ~task_commit_ok
              THEN Result(DATABASE_ERROR, "commit", mode, sel.words, cfgs,
                          Rollback(tasks, task),
                          Rollback(items, TaskItems(task_id, sel.words)))
              ELSE Result(SUCCESS, "done", mode, sel.words, cfgs,
                          Commit(tasks, task),
                          Commit(items, TaskItems(task_id, sel.words)))
              : sel \in SelectWords(data, child, config, curriculum)}

----------------------------------------------------------------------------
(* The state machine *)

\* the request being answered and its response: who asks, for which child,
\* the words and the unit once the selection step has read them, the response
\* code, where the handler returned, the branch taken and the local "words"
Served(op, user_id, data, r) ==
    LET read == r.mode # "none"
    IN  [op |-> op, user_id |-> user_id,
         has_child_id |-> data.has_child_id, child_id |-> data.child_id,
         has_words |-> read /\ data.has_words,
         words |-> IF read THEN data.words ELSE << >>,
         has_unit |-> read /\ data.has_unit,
         unit |-> IF read THEN data.unit ELSE 0,
         code |-> r.code, stage |-> r.stage, mode |-> r.mode, selected |-> r.words]

Idle == Served("none", 0, NoData, NoChange(SUCCESS, "done"))

Init ==
    /\ curriculum \in SeqsUpTo(YuwenItems, MaxItems)
    /\ configs = << >>
    /\ tasks = << >>
    /\ items = << >>
    /\ last = Idle

\* a handler runs to the end on its request: the tables and the response
Respond(op, user_id, data, r) ==
    /\ configs' = r.configs
    /\ tasks' = r.tasks
    /\ items' = r.items
    /\ last' = Served(op, user_id, data, r)
    /\ UNCHANGED curriculum

\* the child the request names is the requester's
Owned(user_id, data) ==
    data.has_child_id /\ FindChild(data.child_id, user_id) # NoChild

\* db.session.commit() succeeds or raises SQLAlchemyError, where the handler runs it
CommitOutcomes(attempted) == IF attempted THEN BOOLEAN ELSE {TRUE}

GetConfig ==
    /\ last = Idle
    /\ \E user_id \in Users, args \in WithChild :
         \E commit_ok \in CommitOutcomes(Owned(user_id, args)
                                          /\ ~HasConfig(configs, args.child_id)) :
            Respond("get_config", user_id, args, get_config(user_id, args, commit_ok))

UpdateConfig ==
    /\ last = Idle
    /\ \E user_id \in Users, data \in ConfigRequests :
         \E commit_ok \in CommitOutcomes(Owned(user_id, data)) :
            Respond("update_config", user_id, data, update_config(user_id, data, commit_ok))

CreateTask ==
    /\ last = Idle
    /\ Len(tasks) < MaxTasks
    /\ \E user_id \in Users, data \in TaskRequests :
         \E config_commit_ok \in CommitOutcomes(Owned(user_id, data)
                                                 /\ ~HasConfig(configs, data.child_id)),
            task_commit_ok \in CommitOutcomes(Owned(user_id, data)) :
            \E r \in create_task(user_id, data, config_commit_ok, task_commit_ok) :
                Respond("create_task", user_id, data, r)

\* the response has been sent; the scoped session is removed
Reply ==
    /\ last # Idle
    /\ last' = Idle
    /\ UNCHANGED <<curriculum, configs, tasks, items>>

Next == GetConfig \/ UpdateConfig \/ CreateTask \/ Reply

Spec == Init /\ [][Next]_vars

----------------------------------------------------------------------------
(* What the claims speak of, read off the state after a request *)

Handlers == {"get_config", "update_config", "create_task"}

\* the last request was a create_task that ran its word-selection step
Selecting == last.op = "create_task" /\ last.mode # "none"

\* the child of the last request, as the ownership check found it
TheChild == FindChild(last.child_id, last.user_id)

\* the curriculum rows of the child's grade, semester and textbook version in
\* the unit the last request names
MatchingRows ==
    {i \in 1..Len(curriculum) :
        /\ curriculum[i].grade = TheChild.grade
        /\ curriculum[i].semester = TheChild.semester
        /\ curriculum[i].textbook_version = TheChild.textbook_version
        /\ curriculum[i].unit = last.unit}

MatchCount == Cardinality(MatchingRows)

\* how often a word is among the matching rows, and in a list
TimesMatched(w) == Cardinality({i \in MatchingRows : curriculum[i].word = w})
TimesIn(list, w) == Cardinality({i \in 1..Len(list) : list[i] = w})

\* words_per_dictation of the child's config
Wpd == ConfigOf(configs, last.child_id).words_per_dictation

\* the words of the items of a task, in the order of the item table
ItemRows(task_id) == SelectSeq(items, LAMBDA it : it.task = task_id)
ItemWords(task_id) == [i \in 1..Len(ItemRows(task_id)) |-> ItemRows(task_id)[i].word]

----------------------------------------------------------------------------
(* Claims *)

\* C1: when the create_task request supplies a word list, the selected words
\* are exactly that list: same elements, same order, same length, whatever
\* words_per_dictation and the curriculum are.
C1_ExplicitListVerbatim ==
    (Selecting /\ last.has_words) =>
        /\ last.selected = last.words
        /\ last.code # INTERNAL_ERROR

\* a list with a repeated word, longer than words_per_dictation, went through
C1_Witness ==
    /\ Selecting /\ last.has_words /\ last.code = SUCCESS
    /\ last.words = <<"b", "b">>
    /\ Wpd = 1
    /\ Len(curriculum) > 0
    /\ ItemWords(Len(tasks)) = <<"b", "b">>

\* C2: in unit mode, when more curriculum words match than words_per_dictation,
\* the selection has exactly words_per_dictation words, each one a matched
\* word, and no word twice.
C2_UnitSampleExact ==
    (Selecting /\ last.mode = "unit" /\ MatchCount > Wpd) =>
        /\ last.code # INTERNAL_ERROR
        /\ Len(last.selected) = Wpd
        /\ \A i \in 1..Len(last.selected) : TimesMatched(last.selected[i]) > 0
        /\ \A i, j \in 1..Len(last.selected) :
               i # j => last.selected[i] # last.selected[j]

\* C3: in unit mode, when at most words_per_dictation curriculum words match,
\* the selection is all of the matched words, none dropped and none added; an
\* empty match gives an empty selection.
C3_UnitAllMatched ==
    (Selecting /\ last.mode = "unit" /\ MatchCount <= Wpd) =>
        /\ last.code # INTERNAL_ERROR
        /\ Len(last.selected) = MatchCount
        /\ \A w \in Words : TimesIn(last.selected, w) = TimesMatched(w)
        /\ (MatchCount = 0 => last.selected = << >>)

\* as many words matched as words_per_dictation allows, beside rows that do not match
C3_Witness ==
    /\ Selecting /\ last.mode = "unit" /\ last.code = SUCCESS
    /\ MatchCount = 1 /\ Wpd = 1
    /\ Len(curriculum) = 2
    /\ Len(last.selected) = 1

\* C4: the selection modes exclude each other and are tried in the order
\* explicit list, unit, smart: exactly one decides the words, and with both a
\* word list and a unit supplied the result is the word list, whatever the
\* curriculum holds for that unit.
C4_ModePriority ==
    /\ (last.op = "create_task" /\ last.stage \in {"select", "commit", "done"}) => Selecting
    /\ Selecting =>
        /\ last.mode \in {"explicit", "unit", "smart"}
        /\ (last.mode = "explicit") = last.has_words
        /\ (last.mode = "unit") = (~last.has_words /\ last.has_unit)
        /\ (last.mode = "smart") = (~last.has_words /\ ~last.has_unit)
        /\ (last.has_words /\ last.has_unit) => last.selected = last.words

\* a word list and a unit with matching rows together; the list differs from the rows
C4_Witness ==
    /\ Selecting /\ last.has_words /\ last.has_unit
    /\ MatchCount = 2
    /\ last.words = <<"a">>
    /\ last.selected = <<"a">>
    /\ TimesMatched("b") > 0

\* C5: with neither a word list nor a unit in the request, the selected words
\* are the empty list and the task that is stored has no items.
C5_SmartIsEmpty ==
    (Selecting /\ ~last.has_words /\ ~last.has_unit) =>
        /\ last.selected = << >>
        /\ last.code # INTERNAL_ERROR
        /\ (last.code = SUCCESS => ItemWords(Len(tasks)) = << >>)

\* a task stored from a request with neither, over a curriculum that has rows
C5_Witness ==
    /\ Selecting /\ ~last.has_words /\ ~last.has_unit
    /\ last.code = SUCCESS
    /\ Len(tasks) = 1 /\ items = << >>
    /\ Len(curriculum) = 2
    /\ Wpd = 0

\* C6: word selection has no error state: for an owned child, any stored
\* words_per_dictation (zero and negative too), any unit and any curriculum,
\* it ends with a list of words and never in the internal-error response.
C6_SelectionNeverFails ==
    (last.op = "create_task" /\ last.stage = "select") => last.code # INTERNAL_ERROR

\* C7: a child's config is created on first access and only then: a child
\* has a config once a get_config, update_config or create_task request for
\* it has succeeded; such a request adds a config only when the child has
\* none; a config that exists is never replaced, removed or doubled.
C7_ConfigRequest ==
    /\ last'.op \in Handlers
    /\ last'.has_child_id
    /\ FindChild(last'.child_id, last'.user_id) # NoChild

C7_Step ==
    /\ Len(configs') >= Len(configs)
    /\ \A i \in 1..Len(configs) : configs'[i].child_id = configs[i].child_id
    /\ \A c \in ChildIds : Cardinality(ConfigRows(configs', c)) <= 1
    /\ Len(configs') > Len(configs) =>
           /\ C7_ConfigRequest
           /\ ~HasConfig(configs, last'.child_id)
           /\ Len(configs') = Len(configs) + 1
           /\ configs'[Len(configs')].child_id = last'.child_id
    /\ (last'.op \in Handlers /\ last'.code = SUCCESS) =>
           HasConfig(configs', last'.child_id)

C7_LazyConfig == [][C7_Step]_vars

\* a create_task succeeded on a config an earlier update_config had written
C7_Witness ==
    /\ last.op = "create_task" /\ last.code = SUCCESS
    /\ Len(configs) = 1
    /\ configs[1].child_id = last.child_id
    /\ configs[1].words_per_dictation = 0

\* C8: a request of one of the three handlers that names a child which does not
\* exist, or is another user's, ends with the child-not-found error and leaves
\* configs, tasks and task items as they were.
C8_NotFoundStep ==
    (/\ last'.op \in Handlers
     /\ last'.has_child_id
     /\ FindChild(last'.child_id, last'.user_id) = NoChild)
    => (/\ last'.code = CHILD_NOT_FOUND
        /\ UNCHANGED <<configs, tasks, items>>)

C8_ChildNotFound == [][C8_NotFoundStep]_vars

\* C9: a task that create_task stores belongs to the requested child and the
\* requesting user and has one item per selected word, in the order of the
\* selected words, no fewer and no more.
C9_TaskMatchesSelection ==
    /\ \A i \in 1..Len(items) : items[i].task \in 1..Len(tasks)
    /\ \A t \in 1..Len(tasks) : FindChild(tasks[t].child_id, tasks[t].user_id) # NoChild
    /\ (last.op = "create_task" /\ last.code = SUCCESS) =>
           /\ Len(tasks) >= 1
           /\ tasks[Len(tasks)].child_id = last.child_id
           /\ tasks[Len(tasks)].user_id = last.user_id
           /\ ItemWords(Len(tasks)) = last.selected

\* a task of two different words, sampled from the curriculum, was stored
C9_Witness ==
    /\ last.op = "create_task" /\ last.code = SUCCESS /\ last.mode = "unit"
    /\ last.selected = <<"b", "a">>
    /\ ItemWords(Len(tasks)) = <<"b", "a">>
    /\ tasks[Len(tasks)] = [child_id |-> 1, user_id |-> 1]

\* C10: storing a task is all or nothing: when the final commit of create_task
\* fails the response is the database error and neither the task nor any item
\* is stored; the tables change only by one whole task with all of its items.
C10_Step ==
    /\ (last'.op = "create_task" /\ last'.stage = "commit") =>
           /\ last'.code = DATABASE_ERROR
           /\ UNCHANGED <<tasks, items>>
    /\ (last'.op = "create_task" /\ last'.code # SUCCESS) => UNCHANGED <<tasks, items>>
    /\ (tasks' # tasks \/ items' # items) =>
           /\ last'.op = "create_task" /\ last'.code = SUCCESS
           /\ Len(tasks') = Len(tasks) + 1
           /\ Len(items') = Len(items) + Len(last'.selected)
           /\ \A i \in Len(items) + 1 .. Len(items') : items'[i].task = Len(tasks')

C10_AllOrNothing == [][C10_Step]_vars

\* the final commit failed on a task of two words and nothing of it is stored
C10_Witness ==
    /\ last.op = "create_task" /\ last.stage = "commit"
    /\ last.code = DATABASE_ERROR
    /\ Len(last.selected) = 2
    /\ tasks = << >> /\ items = << >>

====
